---- MODULE Spec2Model ----
(***************************************************************************)
(* Model of pl_curve.py: Pareto-Lorenz curves and Gini coefficients from   *)
(* a relative-abundance table.                                             *)
(*                                                                         *)
(* Numbers.  Abundances are fixed-point integers in units of 10^-6, so     *)
(* 1.0 is 1000000, the validator's tolerance [0.9999, 1.0001] is           *)
(* [999900, 1000100] and the truncation threshold 0.999999 is 999999.      *)
(* Quotients (rank proportions, Gini coefficients) are exact rationals     *)
(* <<num, den>> in lowest terms; <<0, 0>> is numpy's nan.  Rounding error *)
(* of binary floating point is not modelled.                               *)
(*                                                                         *)
(* Objects.  A pandas DataFrame is an object on `heap`; variables of the   *)
(* program hold object ids, so that a stage that assigns a column to the   *)
(* frame it was given is seen by every holder of that frame.               *)
(***************************************************************************)
EXTENDS Integers, Sequences, FiniteSets, TLC

VARIABLES
    mode,       \* which entry point runs: "run", "check_columns", "calculate_gini"
    pc,         \* position inside the entry point
    heap,       \* Seq of DataFrame objects; an object id is its position
    df,         \* run: the local variable df (an object id)
    samples,    \* run: the local variable samples (a list of object ids)
    ranked,     \* history: the list sort_bins returned (object ids)
    call,       \* history: the last stage called, its argument frames before the call
    trace,      \* history: the stages run() has called, in order
    stderr,     \* run: what was written to sys.stderr
    graph,      \* the curves make_graph plotted
    gini_file,  \* the TSV file make_gini_file saves: whether written, and its rows
    exit,       \* how run() ended: "running", "returned", "exit1", "ZeroDivisionError"
    x,          \* calculate_gini entry point: the argument
    g,          \* calculate_gini entry point: the value returned
    accepted    \* check_columns entry point: the value returned

vars == <<mode, pc, heap, df, samples, ranked, call, trace, stderr, graph, gini_file,
          exit, x, g, accepted>>

----------------------------------------------------------------------------
(* Bounds of the model *)

MaxBins == 3

MaxCheckBins == 2

MaxLen == 3

(* Program constants, in units of 10^-6 *)

SumLow == 999900

SumHigh == 1000100

Threshold == 999999

(* Column names *)

Samples == <<"A", "B">>

CumRelAbund == "Cum Rel Abund"

CumPropTRFs == "Cum Prop TRFs"

(* Abundance values the input tables are drawn from *)

Vals == {0, 100, 500000, 999999, 1000000}

CheckVals == {0, 1, 500000, 999899, 1000000, 1000100}

GiniVals == {0, 20, 30, 33, 34, 50}

----------------------------------------------------------------------------
(* Sequences and exact rationals *)

Range(s) == {s[i] : i \in DOMAIN s}

RECURSIVE SumSeq(_)
SumSeq(s) == IF s = <<>> THEN 0 ELSE Head(s) + SumSeq(Tail(s))

Abs(a) == IF a < 0 THEN -a ELSE a

RECURSIVE GCD(_, _)
GCD(a, b) == IF b = 0 THEN a ELSE GCD(b, a % b)

NaN == <<0, 0>>

\* a / b as a float: nan for 0/0, otherwise the exact quotient in lowest terms
Rat(a, b) ==
    IF b = 0 THEN NaN
    ELSE LET s == IF b < 0 THEN -1 ELSE 1
             d == GCD(Abs(a), Abs(b))
         IN  <<(s * a) \div d, (s * b) \div d>>

RatDiv(p, q) ==
    IF p = NaN \/ q = NaN THEN NaN ELSE Rat(p[1] * q[2], p[2] * q[1])

RatMul(p, q) ==
    IF p = NaN \/ q = NaN THEN NaN
    ELSE LET a == Rat(p[1], q[2])
             b == Rat(q[1], p[2])
         IN  Rat(a[1] * b[1], a[2] * b[2])

RatLess(p, q) == p /= NaN /\ q /= NaN /\ p[1] * q[2] < q[1] * p[2]

----------------------------------------------------------------------------
(* pandas DataFrame: an index of row labels, ordered columns, column data *)

DataFrame(idx, cols, data) == [index |-> idx, columns |-> cols, data |-> data]

NRows(f) == Len(f.index)

\* position of the row labelled l (labels are unique)
Pos(f, l) == CHOOSE i \in 1..NRows(f) : f.index[i] = l

\* df.loc[l]: the values of the row labelled l, one per column
Row(f, l) == [c \in 1..Len(f.columns) |-> f.data[f.columns[c]][Pos(f, l)]]

\* s without its i-th element
RemoveAt(s, i) == [j \in 1..(Len(s) - 1) |-> IF j < i THEN s[j] ELSE s[j + 1]]

\* df.drop(l): a frame without the row labelled l
Drop(f, l) ==
    LET i == Pos(f, l)
    IN  DataFrame(RemoveAt(f.index, i), f.columns,
                  [c \in DOMAIN f.data |-> RemoveAt(f.data[c], i)])

\* df[name] = values: assignment of a column, in place
SetColumn(f, name, values) ==
    DataFrame(f.index,
              IF name \in Range(f.columns) THEN f.columns ELSE Append(f.columns, name),
              [c \in DOMAIN f.data \cup {name} |->
                   IF c = name THEN values ELSE f.data[c]])

\* df.iloc[:, 0]: the values of the first column
Col0(f) == f.data[f.columns[1]]

----------------------------------------------------------------------------
(* The functions of pl_curve.py *)

\* calculate_gini with the mean of the differences taken over the n*(n-1)
\* pairs of distinct positions
calculate_gini_distinct_pairs(xs) ==
    LET n    == Len(xs)
        S    == SumSeq([k \in 1..(n * n) |->
                         Abs(xs[((k - 1) \div n) + 1] - xs[((k - 1) % n) + 1])])
        mad  == Rat(S, n * (n - 1))
        mean == Rat(SumSeq(xs), n)
        rmad == RatDiv(mad, mean)
    IN  RatMul(<<1, 2>>, rmad)

\* mad = mean of |x_i - x_j| over the n*n outer differences; rmad = mad / mean(x);
\* g = 0.5 * rmad.  The mean of an empty array is nan.
calculate_gini(xs) ==
    LET n    == Len(xs)
        S    == SumSeq([k \in 1..(n * n) |->
                         Abs(xs[((k - 1) \div n) + 1] - xs[((k - 1) % n) + 1])])
        mad  == Rat(S, n * n)
        mean == Rat(SumSeq(xs), n)
        rmad == RatDiv(mad, mean)
    IN  RatMul(<<1, 2>>, rmad)

\* check_columns with the interval open at both ends
check_columns_open_interval(f) ==
    \A c \in 1..Len(f.columns) :
        LET total == SumSeq(f.data[f.columns[c]])
        IN  ~(total <= SumLow \/ total >= SumHigh)

\* every column's total must lie in [0.9999, 1.0001]
check_columns(f) ==
    \A c \in 1..Len(f.columns) :
        LET total == SumSeq(f.data[f.columns[c]])
        IN  ~(total < SumLow \/ total > SumHigh)

\* the loop of remove_zeros looking at the first sample of a row only
RECURSIVE remove_zeros_loop_first_sample(_, _, _)
remove_zeros_loop_first_sample(f, labels, k) ==
    IF k > Len(labels) THEN f
    ELSE LET total == Row(f, labels[k])[1]
         IN  remove_zeros_loop_first_sample(
                 IF total = 0 THEN Drop(f, labels[k]) ELSE f, labels, k + 1)

\* the loop of remove_zeros over the labels of the frame it was given
RECURSIVE remove_zeros_loop(_, _, _)
remove_zeros_loop(f, labels, k) ==
    IF k > Len(labels) THEN f
    ELSE LET total == SumSeq(Row(f, labels[k]))
         IN  remove_zeros_loop(IF total = 0 THEN Drop(f, labels[k]) ELSE f,
                               labels, k + 1)

\* remove_zeros(df): the frame it was given when nothing was dropped, otherwise
\* a new frame; the frame it was given is never assigned to
remove_zeros(h, id) ==
    LET f == remove_zeros_loop(h[id], h[id].index, 1)
    IN  IF f = h[id] THEN [heap |-> h, ret |-> id]
        ELSE [heap |-> Append(h, f), ret |-> Len(h) + 1]

\* Series.sort_values(ascending=False) with the default kind='quicksort', which
\* is not a stable sort: any order of the rows that is non-increasing in the
\* values is a possible result
sort_values(values) ==
    LET n == Len(values)
    IN  {p \in [1..n -> 1..n] :
            /\ \A i, j \in 1..n : i /= j => p[i] /= p[j]
            /\ \A i \in 1..(n - 1) : values[p[i]] >= values[p[i + 1]]}

\* the single-column frame of column c of f, its rows in the order p
to_frame(f, c, p) ==
    DataFrame([i \in 1..NRows(f) |-> f.index[p[i]]], <<c>>,
              [d \in {c} |-> [i \in 1..NRows(f) |-> f.data[c][p[i]]]])

\* sort_bins(df), given the order ps[c] the sort produced for column c: one new
\* frame per column
sort_bins(h, id, ps) ==
    LET f   == h[id]
        new == [c \in 1..Len(f.columns) |-> to_frame(f, f.columns[c], ps[c])]
    IN  [heap |-> h \o new,
         ret  |-> [c \in 1..Len(f.columns) |-> Len(h) + c]]

\* cum_rel_abund of one sample: the running total of its first column
RECURSIVE cum_rel_abund(_, _)
cum_rel_abund(values, i) ==
    IF i = 0 THEN <<>>
    ELSE LET prev == cum_rel_abund(values, i - 1)
         IN  Append(prev, IF i > 1 THEN values[i] + prev[i - 1] ELSE values[i])

RECURSIVE cumulative_relative_abundance_loop(_, _, _)
cumulative_relative_abundance_loop(h, ids, k) ==
    IF k > Len(ids) THEN h
    ELSE cumulative_relative_abundance_loop(
             [h EXCEPT ![ids[k]] =
                  SetColumn(@, CumRelAbund, cum_rel_abund(Col0(@), NRows(@)))],
             ids, k + 1)

\* calculate_cumulative_relative_abundance(samples): assigns the column to each
\* frame it was given and returns those frames in a new list
calculate_cumulative_relative_abundance(h, ids) ==
    [heap |-> cumulative_relative_abundance_loop(h, ids, 1), ret |-> ids]

\* the rank proportions taken over the number of bins of the input table
RECURSIVE prop_trf_of_bin_count_loop(_, _, _)
prop_trf_of_bin_count_loop(h, ids, k) ==
    IF k > Len(ids) THEN h
    ELSE prop_trf_of_bin_count_loop(
             [h EXCEPT ![ids[k]] =
                  SetColumn(@, CumPropTRFs,
                            [i \in 1..NRows(@) |-> Rat(i, NRows(h[1]))])],
             ids, k + 1)

calculate_cumulative_prop_trf_of_bin_count(h, ids) ==
    [heap |-> prop_trf_of_bin_count_loop(h, ids, 1), ret |-> ids]

\* (i+1) / len(sample) for i in range(0, len(sample))
cum_prop_trfs(n) == [i \in 1..n |-> Rat(i, n)]

RECURSIVE cumulative_prop_trf_loop(_, _, _)
cumulative_prop_trf_loop(h, ids, k) ==
    IF k > Len(ids) THEN h
    ELSE cumulative_prop_trf_loop(
             [h EXCEPT ![ids[k]] = SetColumn(@, CumPropTRFs, cum_prop_trfs(NRows(@)))],
             ids, k + 1)

\* calculate_cumulative_prop_trf(samples): assigns the column to each frame it
\* was given and returns those frames in a new list
calculate_cumulative_prop_trf(h, ids) ==
    [heap |-> cumulative_prop_trf_loop(h, ids, 1), ret |-> ids]

\* the removal of rows starting at a value of exactly 0.999999 too
over_one_or_equal(val) == val >= Threshold

\* the test that starts the removal of rows
over_one(val) == val > Threshold

\* the inner loop of remove_cumulative_abundance_over_one over the rows of col
RECURSIVE over_one_rows(_, _, _, _)
over_one_rows(col, new_frame, found, k) ==
    IF k > NRows(col) THEN new_frame
    ELSE LET row_index == col.index[k]
             val       == col.data[CumRelAbund][Pos(col, row_index)]
         IN  IF found
             THEN over_one_rows(col, Drop(new_frame, row_index), TRUE, k + 1)
             ELSE over_one_rows(col, new_frame, over_one(val), k + 1)

RECURSIVE over_one_loop(_, _, _, _)
over_one_loop(h, ids, k, out) ==
    IF k > Len(ids) THEN [heap |-> h, ret |-> out]
    ELSE LET col       == h[ids[k]]
             new_frame == over_one_rows(col, col, FALSE, 1)
         IN  IF new_frame = col
             THEN over_one_loop(h, ids, k + 1, Append(out, ids[k]))
             ELSE over_one_loop(Append(h, new_frame), ids, k + 1,
                                Append(out, Len(h) + 1))

\* truncation that drops the rows from the frames it was given (drop in place)
RECURSIVE over_one_in_place_loop(_, _, _)
over_one_in_place_loop(h, ids, k) ==
    IF k > Len(ids) THEN [heap |-> h, ret |-> ids]
    ELSE over_one_in_place_loop(
             [h EXCEPT ![ids[k]] = over_one_rows(@, @, FALSE, 1)], ids, k + 1)

remove_cumulative_abundance_over_one_in_place(h, ids) ==
    over_one_in_place_loop(h, ids, 1)

\* remove_cumulative_abundance_over_one(samples): per sample the frame it was
\* given when no row was dropped, otherwise a new frame
remove_cumulative_abundance_over_one(h, ids) == over_one_loop(h, ids, 1, <<>>)

\* make_graph(samples, filename): one curve per sample
make_graph(h, ids) ==
    [k \in 1..Len(ids) |->
        [label |-> h[ids[k]].columns[1],
         xs    |-> h[ids[k]].data[CumPropTRFs],
         ys    |-> h[ids[k]].data[CumRelAbund]]]

\* the row of one sample with the correction read as (n/n) - 1
gini_row_n_over_n_minus_1(col) ==
    LET gini == calculate_gini(Col0(col))
    IN  [Gini |-> gini,
         Corrected |-> RatMul(gini, Rat(NRows(col) - NRows(col), NRows(col))),
         n |-> NRows(col)]

\* the row make_gini_file computes for one sample
gini_row(col) ==
    LET gini == calculate_gini(Col0(col))
    IN  [Gini |-> gini,
         Corrected |-> RatMul(gini, Rat(NRows(col), NRows(col) - 1)),
         n |-> NRows(col)]

\* len(col) / (len(col)-1) raises ZeroDivisionError
raises(col) == NRows(col) - 1 = 0

\* make_gini_file(samples, gini_file): the rows are computed sample by sample; the
\* file is written after the loop, so not at all when a sample raises
RECURSIVE gini_loop(_, _, _, _)
gini_loop(h, ids, k, rows) ==
    IF k > Len(ids) THEN [raised |-> FALSE, written |-> TRUE, rows |-> rows]
    ELSE LET col == h[ids[k]]
         IN  IF raises(col)
             THEN [raised |-> TRUE, written |-> FALSE, rows |-> <<>>]
             ELSE gini_loop(h, ids, k + 1,
                            Append(rows, [title |-> col.columns[1]] @@ gini_row(col)))

make_gini_file(h, ids) == gini_loop(h, ids, 1, <<>>)

----------------------------------------------------------------------------
(* State machine *)

\* the tables read_csv can return: n bins labelled 1..n, one column per sample
Tables(n, values) ==
    {DataFrame([i \in 1..n |-> i], Samples, d) :
        d \in [Range(Samples) -> [1..n -> values]]}

NoCall == [fn |-> "", ids |-> <<>>, before |-> <<>>]

NoFile == [written |-> FALSE, rows |-> <<>>]

\* the frames with the ids `ids`, as they are in h
Snapshot(fn, h, ids) ==
    [fn |-> fn, ids |-> ids, before |-> [k \in 1..Len(ids) |-> h[ids[k]]]]

InitCommon ==
    /\ pc = "start"
    /\ samples = <<>>
    /\ ranked = <<>>
    /\ call = NoCall
    /\ trace = <<>>
    /\ stderr = ""
    /\ graph = <<>>
    /\ gini_file = NoFile
    /\ exit = "running"
    /\ g = NaN
    /\ accepted = FALSE

\* run(input_file, graph_file, output_file) after read_csv
InitRun ==
    /\ mode = "run"
    /\ \E n \in 0..MaxBins : \E t \in Tables(n, Vals) : heap = <<t>>
    /\ df = 1
    /\ x = <<>>
    /\ InitCommon

\* a call of check_columns(df)
InitCheck ==
    /\ mode = "check_columns"
    /\ \E n \in 0..MaxCheckBins : \E t \in Tables(n, CheckVals) : heap = <<t>>
    /\ df = 1
    /\ x = <<>>
    /\ InitCommon

\* a call of calculate_gini(x)
InitGini ==
    /\ mode = "calculate_gini"
    /\ heap = <<>>
    /\ df = 0
    /\ \E n \in 0..MaxLen : x \in [1..n -> GiniVals]
    /\ InitCommon

Init == InitRun \/ InitCheck \/ InitGini

\* run, line 227: the gate
Validate ==
    /\ mode = "run" /\ pc = "start"
    /\ trace' = Append(trace, "check_columns")
    /\ call' = Snapshot("check_columns", heap, <<df>>)
    /\ IF check_columns(heap[df])
       THEN /\ pc' = "checked"
            /\ UNCHANGED <<stderr, exit>>
       ELSE /\ pc' = "done"
            /\ stderr' = "Error: columns don't sum to 1\n"
            /\ exit' = "exit1"
    /\ UNCHANGED <<mode, ranked, heap, df, samples, graph, gini_file, x, g, accepted>>

\* run, line 228
RemoveZeros ==
    /\ mode = "run" /\ pc = "checked"
    /\ LET r == remove_zeros(heap, df)
       IN  /\ heap' = r.heap
           /\ df' = r.ret
    /\ call' = Snapshot("remove_zeros", heap, <<df>>)
    /\ trace' = Append(trace, "remove_zeros")
    /\ pc' = "pruned"
    /\ UNCHANGED <<mode, ranked, samples, stderr, graph, gini_file, exit, x, g, accepted>>

\* run, line 229
SortBins ==
    /\ mode = "run" /\ pc = "pruned"
    /\ \E ps \in [1..Len(heap[df].columns) ->
                    UNION {sort_values(heap[df].data[c]) : c \in Range(heap[df].columns)}] :
          /\ \A c \in 1..Len(heap[df].columns) :
                 ps[c] \in sort_values(heap[df].data[heap[df].columns[c]])
          /\ LET r == sort_bins(heap, df, ps)
             IN  /\ heap' = r.heap
                 /\ samples' = r.ret
                 /\ ranked' = r.ret
    /\ call' = Snapshot("sort_bins", heap, <<df>>)
    /\ trace' = Append(trace, "sort_bins")
    /\ pc' = "sorted"
    /\ UNCHANGED <<mode, df, stderr, graph, gini_file, exit, x, g, accepted>>

\* run, line 230
CumulativeRelativeAbundance ==
    /\ mode = "run" /\ pc = "sorted"
    /\ LET r == calculate_cumulative_relative_abundance(heap, samples)
       IN  /\ heap' = r.heap
           /\ samples' = r.ret
    /\ call' = Snapshot("calculate_cumulative_relative_abundance", heap, samples)
    /\ trace' = Append(trace, "calculate_cumulative_relative_abundance")
    /\ pc' = "cumulated"
    /\ UNCHANGED <<mode, ranked, df, stderr, graph, gini_file, exit, x, g, accepted>>

\* run, line 231
RemoveOverOne ==
    /\ mode = "run" /\ pc = "cumulated"
    /\ LET r == remove_cumulative_abundance_over_one(heap, samples)
       IN  /\ heap' = r.heap
           /\ samples' = r.ret
    /\ call' = Snapshot("remove_cumulative_abundance_over_one", heap, samples)
    /\ trace' = Append(trace, "remove_cumulative_abundance_over_one")
    /\ pc' = "truncated"
    /\ UNCHANGED <<mode, ranked, df, stderr, graph, gini_file, exit, x, g, accepted>>

\* run, line 232
CumulativePropTrf ==
    /\ mode = "run" /\ pc = "truncated"
    /\ LET r == calculate_cumulative_prop_trf(heap, samples)
       IN  /\ heap' = r.heap
           /\ samples' = r.ret
    /\ call' = Snapshot("calculate_cumulative_prop_trf", heap, samples)
    /\ trace' = Append(trace, "calculate_cumulative_prop_trf")
    /\ pc' = "ranked"
    /\ UNCHANGED <<mode, ranked, df, stderr, graph, gini_file, exit, x, g, accepted>>

\* run, line 233
MakeGraph ==
    /\ mode = "run" /\ pc = "ranked"
    /\ graph' = make_graph(heap, samples)
    /\ call' = Snapshot("make_graph", heap, samples)
    /\ trace' = Append(trace, "make_graph")
    /\ pc' = "graphed"
    /\ UNCHANGED <<mode, ranked, heap, df, samples, stderr, gini_file, exit, x, g, accepted>>

\* run, lines 234-235: an exception of make_gini_file is not caught
MakeGiniFile ==
    /\ mode = "run" /\ pc = "graphed"
    /\ LET r == make_gini_file(heap, samples)
       IN  /\ gini_file' = [written |-> r.written, rows |-> r.rows]
           /\ exit' = IF r.raised THEN "ZeroDivisionError" ELSE "returned"
    /\ call' = Snapshot("make_gini_file", heap, samples)
    /\ trace' = Append(trace, "make_gini_file")
    /\ pc' = "done"
    /\ UNCHANGED <<mode, ranked, heap, df, samples, stderr, graph, x, g, accepted>>

\* check_columns(df) called on its own
CallCheckColumns ==
    /\ mode = "check_columns" /\ pc = "start"
    /\ accepted' = check_columns(heap[df])
    /\ pc' = "done"
    /\ UNCHANGED <<mode, ranked, heap, df, samples, call, trace, stderr, graph, gini_file,
                   exit, x, g>>

\* calculate_gini(x) called on its own
CallCalculateGini ==
    /\ mode = "calculate_gini" /\ pc = "start"
    /\ g' = calculate_gini(x)
    /\ pc' = "done"
    /\ UNCHANGED <<mode, ranked, heap, df, samples, call, trace, stderr, graph, gini_file,
                   exit, x, accepted>>

Next ==
    \/ Validate
    \/ RemoveZeros
    \/ SortBins
    \/ CumulativeRelativeAbundance
    \/ RemoveOverOne
    \/ CumulativePropTrf
    \/ MakeGraph
    \/ MakeGiniFile
    \/ CallCheckColumns
    \/ CallCalculateGini

Spec == Init /\ [][Next]_vars

----------------------------------------------------------------------------
(* Properties *)

\* the stages run() has called so far
Called(fn) == mode = "run" /\ fn \in Range(trace)

\* run() is over and make_gini_file was called
Scored == mode = "run" /\ pc = "done" /\ Called("make_gini_file")

\* the table read_csv returned (object 1 of run)
InputTable == heap[1]

ColumnSums(f) == [c \in 1..Len(f.columns) |-> SumSeq(f.data[f.columns[c]])]

\* the number of rows a curve keeps: up to and including the first cumulative
\* value that `reached` holds of, all of them when there is none
KeptLen(cum, reached(_)) ==
    IF \E i \in 1..Len(cum) : reached(cum[i])
    THEN CHOOSE i \in 1..Len(cum) :
             reached(cum[i]) /\ \A j \in 1..(i - 1) : ~reached(cum[j])
    ELSE Len(cum)

Exceeds(v) == v > Threshold

AtLeast(v) == v >= Threshold

\* the abundances of ranked sample k, before truncation
RankedAbund(k) == Col0(heap[ranked[k]])

\* the cumulative relative abundances of ranked sample k, before truncation
RankedCum(k) == heap[ranked[k]].data[CumRelAbund]

\* half the relative mean absolute difference of xs, the mean taken over all
\* n*n ordered pairs
SumAbsDiff(xs) ==
    LET n == Len(xs)
        RECURSIVE upto(_, _)
        upto(i, j) ==
            IF i > n THEN 0
            ELSE IF j > n THEN upto(i + 1, 1)
            ELSE Abs(xs[i] - xs[j]) + upto(i, j + 1)
    IN  upto(1, 1)

HalfRelMeanAbsDiff(xs) == Rat(SumAbsDiff(xs), 2 * Len(xs) * SumSeq(xs))

\* C1 (as stated): the Gini, Corrected Gini and n that run() reports for a sample
\* are those of its untruncated ranked abundances, n being the number of bins
\* after pruning and before truncation.
C1_UntruncatedScores ==
    Scored /\ gini_file.written =>
        \A k \in 1..Len(gini_file.rows) :
            LET xs == RankedAbund(k)
                n  == Len(xs)
                r  == gini_file.rows[k]
            IN  /\ r.n = n
                /\ r.Gini = HalfRelMeanAbsDiff(xs)
                /\ r.Corrected = RatMul(HalfRelMeanAbsDiff(xs), Rat(n, n - 1))

\* C1 (amended): the Gini, Corrected Gini and n that run() reports for a sample
\* are those of the rows its curve retains after truncation: n is the number of
\* retained rows and the Gini is taken over the retained abundances only.
C1_TruncatedScores ==
    Scored /\ gini_file.written =>
        \A k \in 1..Len(gini_file.rows) :
            LET n  == KeptLen(RankedCum(k), Exceeds)
                xs == SubSeq(RankedAbund(k), 1, n)
                r  == gini_file.rows[k]
            IN  /\ r.title = Samples[k]
                /\ r.n = n
                /\ r.Gini = HalfRelMeanAbsDiff(xs)
                /\ r.Corrected = RatMul(HalfRelMeanAbsDiff(xs), Rat(n, n - 1))

\* a scored sample whose curve lost a row with non-zero abundance to truncation
C1_Witness ==
    /\ Scored /\ gini_file.written
    /\ \E k \in 1..Len(samples) :
          /\ gini_file.rows[k].n < Len(RankedAbund(k))
          /\ gini_file.rows[k].n >= 2
          /\ RankedAbund(k)[Len(RankedAbund(k))] > 0
          /\ gini_file.rows[k].Gini /= HalfRelMeanAbsDiff(RankedAbund(k))

\* C2 (as stated): make_gini_file does not crash on a sample of n <= 1 bins; it
\* records NaN as that sample's Corrected Gini and produces a row for every
\* other sample.
C2_DegenerateSampleGuarded ==
    Scored =>
        /\ exit = "returned"
        /\ gini_file.written
        /\ Len(gini_file.rows) = Len(samples)
        /\ \A k \in 1..Len(samples) :
              NRows(heap[samples[k]]) <= 1 => gini_file.rows[k].Corrected = NaN

\* C3: check_columns returns True iff every column total lies in
\* [0.9999, 1.0001]; totals of 0.5 and 1.5 are rejected, totals of exactly 0.9999
\* and 1.0001 are accepted.
C3_AcceptsIffInTolerance ==
    mode = "check_columns" /\ pc = "done" =>
        LET sums == ColumnSums(InputTable)
        IN  /\ accepted <=> \A c \in DOMAIN sums : sums[c] \in SumLow..SumHigh
            /\ (\E c \in DOMAIN sums : sums[c] \in {500000, 1500000}) => ~accepted
            /\ (\A c \in DOMAIN sums : sums[c] \in {999900, 1000100}) => accepted

\* a table accepted with one column at each end of the interval
C3_Witness ==
    /\ mode = "check_columns" /\ pc = "done" /\ accepted
    /\ ColumnSums(InputTable) = <<999900, 1000100>>

AllStages ==
    <<"check_columns", "remove_zeros", "sort_bins",
      "calculate_cumulative_relative_abundance",
      "remove_cumulative_abundance_over_one", "calculate_cumulative_prop_trf",
      "make_graph", "make_gini_file">>

\* C4 (as stated): when check_columns rejects the table no later stage runs and
\* run() ends with exit status 1; when it accepts, every stage runs once, in
\* order, and run() ends without error status.
C4_HardGate ==
    mode = "run" /\ pc = "done" =>
        IF check_columns(InputTable)
        THEN trace = AllStages /\ exit = "returned"
        ELSE trace = <<"check_columns">> /\ exit = "exit1"

\* the pruned table: run's df once remove_zeros has returned
Pruned == heap[df]

NonIncreasing(xs) == \A i \in 1..(Len(xs) - 1) : xs[i] >= xs[i + 1]

NonDecreasing(xs) == \A i \in 1..(Len(xs) - 1) : xs[i] <= xs[i + 1]

\* C5 (as stated): sort_bins returns each sample's bins in non-increasing order
\* of abundance, and bins of equal abundance keep the relative order of their
\* rows in the source table.
C5_SortedAndStable ==
    Called("sort_bins") =>
        \A k \in 1..Len(ranked) :
            LET f == heap[ranked[k]]
            IN  /\ NonIncreasing(Col0(f))
                /\ \A i, j \in 1..NRows(f) :
                       i < j /\ Col0(f)[i] = Col0(f)[j] =>
                           Pos(Pruned, f.index[i]) < Pos(Pruned, f.index[j])

\* curve k is the first m rows of ranked sample k, cumulative column included
IsPrefix(k, m) ==
    LET f == heap[samples[k]]
        u == heap[ranked[k]]
    IN  /\ f.index = SubSeq(u.index, 1, m)
        /\ Col0(f) = SubSeq(Col0(u), 1, m)
        /\ f.data[CumRelAbund] = SubSeq(u.data[CumRelAbund], 1, m)

\* C6 (as stated): after truncation each curve is the prefix of its ranked
\* sequence that ends with the first cumulative value >= 0.999999 (the whole
\* sequence when no value reaches it), and its cumulative values are
\* non-decreasing.
C6_KeptToFirstAtLeast ==
    Called("remove_cumulative_abundance_over_one") =>
        \A k \in 1..Len(samples) :
            /\ IsPrefix(k, KeptLen(RankedCum(k), AtLeast))
            /\ NonDecreasing(heap[samples[k]].data[CumRelAbund])

\* C6 (amended): after truncation each curve is the prefix of its ranked
\* sequence that ends with the first cumulative value strictly greater than
\* 0.999999 (the whole sequence when no value exceeds it, a value of exactly
\* 0.999999 included), and its cumulative values are non-decreasing.
C6_KeptToFirstExceeding ==
    Called("remove_cumulative_abundance_over_one") =>
        \A k \in 1..Len(samples) :
            /\ IsPrefix(k, KeptLen(RankedCum(k), Exceeds))
            /\ NonDecreasing(heap[samples[k]].data[CumRelAbund])

\* one curve cut after a value that follows an exact 0.999999, another kept
\* whole because nothing exceeds 0.999999
C6_Witness ==
    /\ mode = "run" /\ pc = "truncated"
    /\ \E k \in 1..Len(samples) :
          /\ RankedCum(k)[1] = Threshold
          /\ NRows(heap[samples[k]]) = 2
          /\ Len(RankedCum(k)) = 3
    /\ \E k \in 1..Len(samples) :
          /\ \A i \in 1..Len(RankedCum(k)) : RankedCum(k)[i] <= Threshold
          /\ NRows(heap[samples[k]]) = Len(RankedCum(k))
          /\ Len(RankedCum(k)) >= 2

\* C7: the cumulative rank proportion is computed after truncation: at position
\* i of a curve of m retained rows it is i/m, m being the truncated length, so
\* the last value of a non-empty curve is exactly 1.
C7_RankProportionOfTruncated ==
    Called("calculate_cumulative_prop_trf") =>
        \A k \in 1..Len(samples) :
            LET m == KeptLen(RankedCum(k), Exceeds)
                p == heap[samples[k]].data[CumPropTRFs]
            IN  /\ Len(p) = m
                /\ \A i \in 1..m : p[i][2] > 0 /\ p[i][1] * m = i * p[i][2]
                /\ m > 0 => p[m] = <<1, 1>>

\* a curve of two rows cut from three ranked bins, its proportions 1/2 and 1
C7_Witness ==
    /\ Called("calculate_cumulative_prop_trf")
    /\ \E k \in 1..Len(samples) :
          /\ NRows(heap[ranked[k]]) = 3
          /\ heap[samples[k]].data[CumPropTRFs] = <<(<<1, 2>>), (<<1, 1>>)>>

\* C8: remove_zeros removes exactly the rows whose sum over all samples is 0 and
\* keeps the others in order; a row of zeros is in no ranked sequence and no
\* curve; a table without such a row keeps its row count.
C8_ZeroRowsRemoved ==
    Called("remove_zeros") =>
        LET t == InputTable
            NonZero(l) == SumSeq(Row(t, l)) /= 0
            keep == SelectSeq(t.index, NonZero)
        IN  /\ Pruned.index = keep
            /\ Pruned.columns = t.columns
            /\ \A c \in Range(t.columns) :
                   Pruned.data[c] = [i \in 1..Len(keep) |-> t.data[c][Pos(t, keep[i])]]
            /\ \A k \in 1..Len(ranked) : Range(heap[ranked[k]].index) = Range(keep)
            /\ \A k \in 1..Len(samples) :
                   Range(heap[samples[k]].index) \subseteq Range(keep)
            /\ \A l \in Range(t.index) :
                   (\A c \in DOMAIN Row(t, l) : Row(t, l)[c] = 0) =>
                       /\ l \notin Range(Pruned.index)
                       /\ \A id \in Range(ranked) \cup Range(samples) :
                              l \notin Range(heap[id].index)
            /\ (\A l \in Range(t.index) : NonZero(l)) => NRows(Pruned) = NRows(t)

\* a run that ended after a row of zeros between two other rows was removed
C8_Witness ==
    /\ Scored /\ exit = "returned"
    /\ InputTable.index = <<1, 2, 3>>
    /\ Pruned.index = <<1, 3>>

PureStages ==
    {"remove_zeros", "sort_bins", "calculate_cumulative_relative_abundance",
     "remove_cumulative_abundance_over_one", "calculate_cumulative_prop_trf"}

\* the frames the last stage was given, as they are now
GivenNow == [k \in 1..Len(call.ids) |-> heap[call.ids[k]]]

\* C9 (as stated): each of the five stages leaves the table(s) it was given
\* unchanged: same rows, same columns, same values after the call as before.
C9_StagesLeaveArgumentsUnchanged ==
    mode = "run" /\ call.fn \in PureStages => GivenNow = call.before

\* frame f is frame b with the one column `name` appended and nothing else changed
WithColumn(f, b, name) ==
    /\ f.index = b.index
    /\ f.columns = Append(b.columns, name)
    /\ \A c \in Range(b.columns) : f.data[c] = b.data[c]

\* C9 (amended): remove_zeros, sort_bins and remove_cumulative_abundance_over_one
\* leave the table(s) they were given unchanged; the two calculate_ stages
\* return the very frames they were given, each with one column appended in
\* place (Cum Rel Abund, Cum Prop TRFs) and its rows, index and other columns
\* unchanged.
C9_OnlyColumnsAppended ==
    mode = "run" =>
        /\ call.fn \in {"remove_zeros", "sort_bins",
                        "remove_cumulative_abundance_over_one"}
              => GivenNow = call.before
        /\ call.fn = "calculate_cumulative_relative_abundance" =>
              /\ samples = call.ids
              /\ \A k \in 1..Len(call.ids) :
                     WithColumn(GivenNow[k], call.before[k], CumRelAbund)
        /\ call.fn = "calculate_cumulative_prop_trf" =>
              /\ samples = call.ids
              /\ \A k \in 1..Len(call.ids) :
                     WithColumn(GivenNow[k], call.before[k], CumPropTRFs)

\* calculate_cumulative_prop_trf has changed the frames it was given; one of
\* them is a frame of the ranked list, which truncation had returned as it was
C9_Witness ==
    /\ mode = "run" /\ call.fn = "calculate_cumulative_prop_trf"
    /\ GivenNow /= call.before
    /\ \E k \in 1..Len(ranked) :
          /\ samples[k] = ranked[k]
          /\ heap[ranked[k]].columns = <<Samples[k], CumRelAbund, CumPropTRFs>>
    /\ \E k \in 1..Len(ranked) : samples[k] /= ranked[k]

\* the example samples of the specification, in units of 0.01
ExampleA == <<50, 30, 20>>

ExampleB == <<34, 33, 33>>

\* C10: calculate_gini returns half the mean absolute difference over all n*n
\* ordered pairs divided by the mean; it is exactly 0 when all bins hold the same
\* positive abundance, and Gini(A) > Gini(B) for A = [0.5, 0.3, 0.2] and
\* B = [0.34, 0.33, 0.33].
C10_GiniFormula ==
    mode = "calculate_gini" /\ pc = "done" =>
        /\ Len(x) > 0 /\ SumSeq(x) > 0 => g = HalfRelMeanAbsDiff(x)
        /\ Len(x) > 0 /\ x[1] > 0 /\ (\A i \in DOMAIN x : x[i] = x[1]) => g = <<0, 1>>
        /\ x = ExampleA => RatLess(HalfRelMeanAbsDiff(ExampleB), g)
        /\ x = ExampleB => RatLess(g, HalfRelMeanAbsDiff(ExampleA))

\* the Gini of example A has been computed: 1/5
C10_Witness ==
    mode = "calculate_gini" /\ pc = "done" /\ x = ExampleA /\ g = <<1, 5>>

====
